---- MODULE Spec2Model ----
(***************************************************************************)
(* A model of the Himalia node: transactions, blocks and proof of work,    *)
(* the persistent block store with its tip key and in-memory tip cache,    *)
(* the chainstate (UTXO) index, two handler threads that run mine_block    *)
(* and add_block step by step, the memory pool with the threads of the Tx  *)
(* package handler, the handlers of the other packages, and the exchange   *)
(* between a starting node and the central node.                           *)
(*                                                                         *)
(* Byte strings are modelled as tagged tuples.  SHA-256, RIPEMD-160,       *)
(* Base58 and hex are modelled as injective tagged wrappers of their       *)
(* input (collision-free digests); an ECDSA signature is the tuple of the  *)
(* signing key's public key and the signed message.                        *)
(***************************************************************************)
EXTENDS Integers, Sequences, FiniteSets, TLC

\* ------------------------------------------------------------------ bounds

\* Most blocks the store may hold (genesis included).
MaxBlocks == 3
\* blocks in the store when only the node itself mines
MaxLocalBlocks == 4

\* ------------------------------------------------------- program constants

SUBSIDY == 10
VERSION == 0
\* proof_of_work.rs sets TARGET_BITS = i64::MAX and MAX_NONCE = 0, values
\* under which ProofOfWork::new shifts by a negative amount and the mining
\* loop has no iteration.  The model keeps the two names and scales them to
\* a digest of HashBits bits: target = 1 << (HashBits - TARGET_BITS).
HashBits == 3
TARGET_BITS == 1
MAX_NONCE == 2

\* ------------------------------------------------------------------ utils

\* utils.rs sha256_digest / ripemd160_digest: collision-free digests.
Sha256Digest(data) == <<"sha256", data>>
Ripemd160Digest(data) == <<"ripemd160", data>>
\* data_encoding HEXLOWER encode / decode of a byte string.
HexEncode(bytes) == <<"hex", bytes>>
HexDecode(hex) == hex[2]
\* utils.rs base58_encode / base58_decode.
Base58Encode(payload) == <<"b58", payload>>
Base58Decode(str) == str[2]

\* The wallets of wallet.dat; each holds a PKCS#8 key and its public key.
Wallets == {"A", "B"}
PublicKey(w) == <<"pub", w>>
Pkcs8(w) == <<"pkcs8", w>>
\* The public key inside a PKCS#8 document (EcdsaKeyPair::from_pkcs8).
PublicKeyOf(pkcs8) == <<"pub", pkcs8[2]>>

\* utils.rs ecdsa_p256_sha256_sign_digest
EcdsaSign(pkcs8, message) == <<"sig", PublicKeyOf(pkcs8), message>>
\* utils.rs ecdsa_p256_sha256_sign_verify: false on anything that is not a
\* signature of `message` under `public_key`.
EcdsaVerify(public_key, signature, message) ==
    /\ Len(signature) = 3
    /\ signature[1] = "sig"
    /\ signature[2] = public_key
    /\ signature[3] = message

\* wallet.rs hash_pub_key
HashPubKey(pub_key) == Ripemd160Digest(Sha256Digest(pub_key))
\* wallet.rs checksum
Checksum(payload) == <<"cksum", Sha256Digest(Sha256Digest(payload))>>
\* wallet.rs Wallet::get_address: Base58(version, pub_key_hash, checksum)
GetAddress(w) ==
    LET pkh == HashPubKey(PublicKey(w))
    IN  Base58Encode(<<VERSION, pkh, Checksum(<<VERSION, pkh>>)>>)
\* wallets.rs Wallets::get_wallet: the wallet stored under an address
WalletOf(address) == CHOOSE w \in Wallets : GetAddress(w) = address

\* ----------------------------------------------------------- transactions

EmptyBytes == <<>>

\* transactions.rs TXOutput::lock: the payload without version and checksum
Lock(address) == Base58Decode(address)[2]
\* transactions.rs TXOutput::new
NewTXOutput(value, address) == [value |-> value, pub_key_hash |-> Lock(address)]
\* transactions.rs TXOutput::is_locked_with_key
IsLockedWithKey(out, pub_key_hash) == out.pub_key_hash = pub_key_hash

\* transactions.rs TXInput::new
NewTXInput(txid, vout) ==
    [txid |-> txid, vout |-> vout, signature |-> EmptyBytes, pub_key |-> EmptyBytes]

\* transactions.rs Transaction::serialize (bincode: the fields in order)
SerializeTx(tx) == <<tx.id, tx.vin, tx.vout>>
\* transactions.rs Transaction::hash: digest of the copy with id cleared
TxHash(tx) == Sha256Digest(SerializeTx([tx EXCEPT !.id = EmptyBytes]))

\* transactions.rs Transaction::is_coinbase
IsCoinbase(tx) == Len(tx.vin) = 1 /\ tx.vin[1].pub_key = EmptyBytes

\* transactions.rs Transaction::new_coinbase_tx; `uuid` is Uuid::new_v4().
NewCoinbaseTx(to, uuid) ==
    LET tx == [id |-> EmptyBytes,
               vin |-> <<[txid |-> EmptyBytes, vout |-> 0,
                          signature |-> <<"uuid", uuid>>, pub_key |-> EmptyBytes]>>,
               vout |-> <<NewTXOutput(SUBSIDY, to)>>]
    IN  [tx EXCEPT !.id = TxHash(tx)]

\* transactions.rs Transaction::trimmed_copy
TrimmedCopy(tx) ==
    [id |-> tx.id,
     vin |-> [i \in 1..Len(tx.vin) |-> NewTXInput(tx.vin[i].txid, tx.vin[i].vout)],
     vout |-> tx.vout]

\* ------------------------------------------------------------------- state

VARIABLES
    blocks,      \* the "blocks" namespace: block hash -> Block
    tip_key,     \* the persistent key tip_block_hash
    tip_hash,    \* Blockchain.tip_hash, the in-memory tip cache
    chainstate,  \* the "chainstate" namespace: txid -> list of TXOutput
    uuids,       \* how many Uuid::new_v4 values have been drawn
    miner,       \* a handler thread inside mine_block: its position and locals
    adder,       \* a handler thread inside add_block: its position and locals
    mempool,     \* GLOBAL_MEMORY_POOL: hex txid -> Transaction
    in_transit,  \* GLOBAL_BLOCKS_IN_TRANSIT: the block hashes still to fetch
    nodes,       \* GLOBAL_NODES: the peer registry, a list of addresses
    network,     \* packages written to a peer's socket and not yet handled
    sent,        \* the send_data calls of the handler that ran last
    config,      \* GLOBAL_CONFIG: node address and mining address
    handlers,    \* the threads inside serve's Tx branch: position and locals
    running,     \* Server::run has bound the listener of this node
    unreachable, \* the addresses TcpStream::connect fails for
    last_add     \* the add_block call that ran last and its argument

\* the state of the server around the block store
server_vars ==
    <<mempool, in_transit, nodes, network, sent, config, handlers, running, unreachable>>

\* maps with a growing key set
Put(m, k, v) == [x \in (DOMAIN m) \cup {k} |-> IF x = k THEN v ELSE m[x]]
Del(m, k) == [x \in (DOMAIN m) \ {k} |-> m[x]]
EmptyMap == [x \in {} |-> x]

\* pre_block_hash of a genesis block: the string "None"
NoneHash == <<"None">>

\* ------------------------------------------------------ block, proof of work

\* block.rs Block::hash_transactions: digest of the concatenated tx ids
HashTransactions(block) ==
    Sha256Digest([i \in 1..Len(block.transactions) |-> block.transactions[i].id])

\* proof_of_work.rs ProofOfWork::prepare_data
PrepareData(block, nonce) ==
    <<block.pre_block_hash, HashTransactions(block), block.timestamp, TARGET_BITS, nonce>>

\* proof_of_work.rs ProofOfWork::new: target = 1 << (digest bits - TARGET_BITS)
Target == 2 ^ (HashBits - TARGET_BITS)

\* BigInt::from_bytes_be of a header digest: a fixed reading of the digest as
\* an integer below 2^HashBits, mixing the header's timestamp and nonce.
FromBytesBe(hash) == (6 * hash[2][3] + 7 * hash[2][5]) % (2 ^ HashBits)

\* proof_of_work.rs ProofOfWork::run, the loop from `nonce` on; `hash` is the
\* last digest computed (empty before the first iteration).
RECURSIVE RunFrom(_, _, _)
RunFrom(block, nonce, hash) ==
    IF nonce < MAX_NONCE
    THEN LET h == Sha256Digest(PrepareData(block, nonce))
         IN  IF FromBytesBe(h) < Target
             THEN <<nonce, HexEncode(h)>>
             ELSE RunFrom(block, nonce + 1, h)
    ELSE <<nonce, HexEncode(hash)>>

Run(block) == RunFrom(block, 0, EmptyBytes)

\* block.rs Block::new; `timestamp` is current_timestamp().
NewBlock(pre_block_hash, transactions, height, timestamp) ==
    LET block == [timestamp |-> timestamp, pre_block_hash |-> pre_block_hash,
                  hash |-> HexEncode(EmptyBytes), transactions |-> transactions,
                  nonce |-> 0, height |-> height]
        pow == Run(block)
    IN  [block EXCEPT !.nonce = pow[1], !.hash = pow[2]]

\* block.rs Block::generate_genesis
GenerateGenesis(transaction, timestamp) ==
    NewBlock(NoneHash, <<transaction>>, 0, timestamp)

\* --------------------------------------------------------- reading the chain

\* blockchain.rs Iterator::next repeated from `hash`: the blocks yielded,
\* newest first; the walk ends at the first hash that is not stored.
RECURSIVE ChainFrom(_, _)
ChainFrom(blks, hash) ==
    IF hash \in DOMAIN blks
    THEN <<blks[hash]>> \o ChainFrom(blks, blks[hash].pre_block_hash)
    ELSE <<>>

\* the transactions of the chain in the order the scans meet them
RECURSIVE ChainTxs(_)
ChainTxs(chain) ==
    IF chain = <<>> THEN <<>> ELSE chain[1].transactions \o ChainTxs(Tail(chain))

\* blockchain.rs Blockchain::find_transaction: <<tx>> for the first match,
\* <<>> for None.
FindTransaction(blks, tip, txid) ==
    LET txs == ChainTxs(ChainFrom(blks, tip))
        hits == {i \in 1..Len(txs) : txs[i].id = txid}
    IN  IF hits = {} THEN <<>>
        ELSE <<txs[CHOOSE i \in hits : \A j \in hits : i <= j]>>

\* blockchain.rs Blockchain::get_best_height (defined when the tip is stored)
GetBestHeight(blks, tip) == blks[tip].height

\* ------------------------------------------------------- signing, verifying

\* The prior output an input names is found on the chain: find_transaction
\* returns Some and the vout index is inside prev_tx.vout (otherwise sign and
\* verify panic).
PrevResolves(blks, tip, vin) ==
    LET prev == FindTransaction(blks, tip, vin.txid)
    IN  prev # <<>> /\ vin.vout + 1 <= Len(prev[1].vout)

\* prev_tx.vout[vin.vout]
PrevOutput(blks, tip, vin) == FindTransaction(blks, tip, vin.txid)[1].vout[vin.vout + 1]

\* The message signed for input idx (sign and verify build it alike): the id
\* of the trimmed copy whose input idx carries the prior output's pub_key_hash.
SignedMessage(blks, tip, tx, idx) ==
    TxHash([TrimmedCopy(tx) EXCEPT
              !.vin[idx].pub_key = PrevOutput(blks, tip, tx.vin[idx]).pub_key_hash])

\* transactions.rs Transaction::sign (defined when every input resolves)
Sign(blks, tip, tx, pkcs8) ==
    [tx EXCEPT !.vin = [idx \in 1..Len(tx.vin) |->
        [tx.vin[idx] EXCEPT !.signature = EcdsaSign(pkcs8, SignedMessage(blks, tip, tx, idx))]]]

\* transactions.rs Transaction::verify, the loop from input idx on:
\* "true", "false", or "panic" when a prior transaction is missing.
RECURSIVE VerifyFrom(_, _, _, _)
VerifyFrom(blks, tip, tx, idx) ==
    IF idx > Len(tx.vin) THEN "true"
    ELSE IF ~PrevResolves(blks, tip, tx.vin[idx]) THEN "panic"
    ELSE IF ~EcdsaVerify(tx.vin[idx].pub_key, tx.vin[idx].signature,
                         SignedMessage(blks, tip, tx, idx)) THEN "false"
    ELSE VerifyFrom(blks, tip, tx, idx + 1)

Verify(blks, tip, tx) == IF IsCoinbase(tx) THEN "true" ELSE VerifyFrom(blks, tip, tx, 1)

\* ------------------------------------------------------------ find_utxo

\* blockchain.rs find_utxo, the loop over one transaction's outputs from
\* index idx (0-based) on: an output whose index is in spent_txos[txid]
\* leaves the transaction (continue 'outer); the others are pushed.
\* Returns <<utxo, left>>: left is TRUE when the transaction was left early.
RECURSIVE PushOutputs(_, _, _, _)
PushOutputs(utxo, spent_txos, tx, idx) ==
    LET txid_hex == HexEncode(tx.id)
    IN  IF idx >= Len(tx.vout) THEN <<utxo, FALSE>>
        ELSE IF txid_hex \in DOMAIN spent_txos
                /\ \E i \in 1..Len(spent_txos[txid_hex]) : spent_txos[txid_hex][i] = idx
             THEN <<utxo, TRUE>>
        ELSE PushOutputs(
                 IF txid_hex \in DOMAIN utxo
                 THEN [utxo EXCEPT ![txid_hex] = Append(@, tx.vout[idx + 1])]
                 ELSE Put(utxo, txid_hex, <<tx.vout[idx + 1]>>),
                 spent_txos, tx, idx + 1)

\* blockchain.rs find_utxo, the loop over a transaction's inputs
RECURSIVE PushSpent(_, _, _)
PushSpent(spent_txos, vin, idx) ==
    IF idx > Len(vin) THEN spent_txos
    ELSE LET txid_hex == HexEncode(vin[idx].txid)
         IN  PushSpent(
                 IF txid_hex \in DOMAIN spent_txos
                 THEN [spent_txos EXCEPT ![txid_hex] = Append(@, vin[idx].vout)]
                 ELSE Put(spent_txos, txid_hex, <<vin[idx].vout>>),
                 vin, idx + 1)

\* blockchain.rs find_utxo, the scan of the transactions from position i on;
\* acc = <<utxo, spent_txos>>.
RECURSIVE FindUtxoScan(_, _, _)
FindUtxoScan(txs, i, acc) ==
    IF i > Len(txs) THEN acc
    ELSE LET pushed == PushOutputs(acc[1], acc[2], txs[i], 0)
         IN  FindUtxoScan(txs, i + 1,
                 IF pushed[2] \/ IsCoinbase(txs[i])
                 THEN <<pushed[1], acc[2]>>
                 ELSE <<pushed[1], PushSpent(acc[2], txs[i].vin, 1)>>)

\* blockchain.rs Blockchain::find_utxo: hex txid -> outputs
FindUtxo(blks, tip) ==
    FindUtxoScan(ChainTxs(ChainFrom(blks, tip)), 1, <<EmptyMap, EmptyMap>>)[1]

\* utxo_set.rs UTXOSet::reindex: the chainstate it leaves
Reindexed(blks, tip) ==
    LET utxo_map == FindUtxo(blks, tip)
    IN  [txid \in {HexDecode(h) : h \in DOMAIN utxo_map} |-> utxo_map[HexEncode(txid)]]

\* ------------------------------------------------------------ UTXOSet::update

\* Vec with the element at 0-based index idx left out (all of it when idx is
\* past the end)
WithoutIndex(outs, idx) ==
    [i \in 1..(IF idx < Len(outs) THEN Len(outs) - 1 ELSE Len(outs)) |->
        IF i <= idx THEN outs[i] ELSE outs[i + 1]]

\* utxo_set.rs update, the loop over one transaction's inputs from idx on.
\* utxo_tree.get(txid).unwrap().unwrap() panics on a missing key: the loop
\* stops there and the tree stays as written so far.
RECURSIVE SpendInputs(_, _, _)
SpendInputs(tree, vin, idx) ==
    IF idx > Len(vin) \/ vin[idx].txid \notin DOMAIN tree THEN tree
    ELSE LET updated_outs == WithoutIndex(tree[vin[idx].txid], vin[idx].vout)
         IN  SpendInputs(
                 IF updated_outs = <<>>
                 THEN Del(tree, vin[idx].txid)
                 ELSE Put(tree, vin[idx].txid, updated_outs),
                 vin, idx + 1)

\* update panics inside the loop over these inputs
RECURSIVE SpendPanics(_, _, _)
SpendPanics(tree, vin, idx) ==
    IF idx > Len(vin) THEN FALSE
    ELSE IF vin[idx].txid \notin DOMAIN tree THEN TRUE
    ELSE SpendPanics(SpendInputs(tree, <<vin[idx]>>, 1), vin, idx + 1)

\* utxo_set.rs UTXOSet::update, the loop over the block's transactions
RECURSIVE UpdateFrom(_, _, _)
UpdateFrom(tree, txs, i) ==
    IF i > Len(txs) THEN tree
    ELSE IF IsCoinbase(txs[i])
         THEN UpdateFrom(Put(tree, txs[i].id, txs[i].vout), txs, i + 1)
    ELSE IF SpendPanics(tree, txs[i].vin, 1)
         THEN SpendInputs(tree, txs[i].vin, 1)
    ELSE UpdateFrom(Put(SpendInputs(tree, txs[i].vin, 1), txs[i].id, txs[i].vout),
                    txs, i + 1)

Update(tree, block) == UpdateFrom(tree, block.transactions, 1)

\* ------------------------------------------------- find_spendable_outputs

\* utxo_set.rs find_spendable_outputs, the loop over one key's outputs from
\* 0-based index idx on; st = <<accumulated, indices selected under the key>>.
RECURSIVE ScanOuts(_, _, _, _, _)
ScanOuts(outs, pub_key_hash, amount, idx, st) ==
    IF idx >= Len(outs) THEN st
    ELSE ScanOuts(outs, pub_key_hash, amount, idx + 1,
             IF IsLockedWithKey(outs[idx + 1], pub_key_hash) /\ st[1] < amount
             THEN <<st[1] + outs[idx + 1].value, Append(st[2], idx)>>
             ELSE st)

\* utxo_set.rs UTXOSet::find_spendable_outputs.  The tree is walked in key
\* order, the byte order of the txids, which are digests: every order of the
\* keys is possible.  The set of all <<accumulated, unspent_outputs>> it can
\* return; `keys` are the keys not yet visited.  A key of which nothing is
\* selected leaves the result as it is, so only the others are branched on.
RECURSIVE Spendable(_, _, _, _, _, _)
Spendable(tree, pub_key_hash, amount, keys, accumulated, unspent_outputs) ==
    LET picks == {k \in keys :
                    ScanOuts(tree[k], pub_key_hash, amount, 0, <<accumulated, <<>>>>)[2] # <<>>}
    IN  IF picks = {} THEN {<<accumulated, unspent_outputs>>}
        ELSE UNION {
               LET st == ScanOuts(tree[k], pub_key_hash, amount, 0, <<accumulated, <<>>>>)
               IN  Spendable(tree, pub_key_hash, amount, keys \ {k}, st[1],
                             Put(unspent_outputs, HexEncode(k), st[2]))
               : k \in picks }

FindSpendableOutputs(tree, pub_key_hash, amount) ==
    Spendable(tree, pub_key_hash, amount, DOMAIN tree, 0, EmptyMap)

\* ------------------------------------------------- new_utxo_transaction

\* every order in which a HashMap may yield the keys in S
Orders(S) ==
    {f \in [1..Cardinality(S) -> S] : \A i, j \in 1..Cardinality(S) : f[i] = f[j] => i = j}

\* the inputs built for the selected outputs, the keys taken in `order`
RECURSIVE InputsOf(_, _, _, _)
InputsOf(valid_outputs, order, pub_key, i) ==
    IF i > Len(order) THEN <<>>
    ELSE [j \in 1..Len(valid_outputs[order[i]]) |->
            [txid |-> HexDecode(order[i]), vout |-> valid_outputs[order[i]][j],
             signature |-> EmptyBytes, pub_key |-> pub_key]]
         \o InputsOf(valid_outputs, order, pub_key, i + 1)

\* transactions.rs Transaction::new_utxo_transaction: the set of the
\* transactions it can return; empty when every run panics (not enough
\* funds, or a prior transaction that sign does not find).
NewUtxoTransaction(blks, tip, tree, from, to, amount) ==
    LET wallet == WalletOf(from)
        public_key_hash == HashPubKey(PublicKey(wallet))
        unsigned == UNION {
            { LET outputs == IF found[1] > amount
                             THEN <<NewTXOutput(amount, to),
                                    NewTXOutput(found[1] - amount, from)>>
                             ELSE <<NewTXOutput(amount, to)>>
                  tx == [id |-> EmptyBytes,
                         vin |-> InputsOf(found[2], order, PublicKey(wallet), 1),
                         vout |-> outputs]
              IN  [tx EXCEPT !.id = TxHash(tx)]
              : order \in Orders(DOMAIN found[2]) }
            : found \in {f \in FindSpendableOutputs(tree, public_key_hash, amount) :
                           f[1] >= amount} }
    IN  { Sign(blks, tip, tx, Pkcs8(wallet)) :
            tx \in {t \in unsigned :
                      \A idx \in 1..Len(t.vin) : PrevResolves(blks, tip, t.vin[idx])} }

\* ------------------------------------------------------------- mine_block

\* a mine_block without its assertions
MineBlockAcceptsAll(blks, tip, transactions) == TRUE

\* blockchain.rs mine_block, the assertions: every transaction verifies
MineBlockAccepts(blks, tip, transactions) ==
    \A i \in 1..Len(transactions) : Verify(blks, tip, transactions[i]) = "true"

\* blockchain.rs mine_block, the block built on the cached tip
MinedBlock(blks, tip, transactions, timestamp) ==
    NewBlock(tip, transactions, GetBestHeight(blks, tip) + 1, timestamp)

\* ------------------------------------------------------------- the peer

\* createblockchain: the genesis block, mined to wallet A at time 0
Genesis == GenerateGenesis(NewCoinbaseTx(GetAddress("A"), 0), 0)
GenesisBlocks == Put(EmptyMap, Genesis.hash, Genesis)

\* A peer that holds the same genesis block and runs the same code mines two
\* blocks on it: PeerBlock1 holds a payment of 3 from A to B and a coinbase,
\* PeerBlock2 a coinbase.  Its Uuid::new_v4 values differ from the node's.
PeerUuids == <<100, 101>>
PeerTx ==
    CHOOSE tx \in NewUtxoTransaction(GenesisBlocks, Genesis.hash,
                                     Reindexed(GenesisBlocks, Genesis.hash),
                                     GetAddress("A"), GetAddress("B"), 3) : TRUE
PeerBlock1 ==
    NewBlock(Genesis.hash, <<PeerTx, NewCoinbaseTx(GetAddress("B"), PeerUuids[1])>>, 1, 0)
PeerBlock2 ==
    NewBlock(PeerBlock1.hash, <<NewCoinbaseTx(GetAddress("B"), PeerUuids[2])>>, 2, 0)

\* PeerBlock1 with one byte of the payment's signature changed
TamperedSignature(block) ==
    [block EXCEPT !.transactions[1].vin[1].signature = <<"sig", PublicKey("A"), <<"tampered">>>>]
\* a block whose nonce is not the one its hash was computed with
TamperedNonce(block) == [block EXCEPT !.nonce = @ + 1]

\* The Block packages a peer may send, in any order.
OfferedBlocks ==
    {PeerBlock1, PeerBlock2, TamperedSignature(PeerBlock1), TamperedNonce(PeerBlock2)}

\* ------------------------------------------------------------------ actions

vars == <<blocks, tip_key, tip_hash, chainstate, uuids, miner, adder,
         mempool, in_transit, nodes, network, sent, config, handlers, running,
         unreachable, last_add>>

\* a handler thread that is in no call
IdleThread == [pc |-> "idle"]

\* The amounts given to `send`
Amounts == {-1, 3, 10, 13}

\* The values current_timestamp returns while the node's blocks are built
Timestamps == {0}

\* server.rs CENTRAL_NODE, config.rs DEFAULT_NODE_ADDR
CENTRAL_NODE == "127.0.0.1:2001"
\* the address of a second node (NODE_ADDRESS in its environment)
OtherNode == "127.0.0.1:2002"
\* config.rs get_mining_addr when no mining address was set
NoMiningAddr == <<"None">>

\* the handler threads of the node
Threads == {1, 2}

\* no add_block call has run since the last other operation
NoCall == [called |-> FALSE]

\* server.rs GLOBAL_NODES, GLOBAL_MEMORY_POOL, GLOBAL_BLOCKS_IN_TRANSIT and
\* config.rs GLOBAL_CONFIG as a process with configuration `cfg` starts
InitServer(cfg) ==
    /\ mempool = EmptyMap
    /\ in_transit = <<>>
    /\ nodes = <<CENTRAL_NODE>>
    /\ network = <<>>
    /\ sent = <<>>
    /\ config = cfg
    /\ handlers = [t \in Threads |-> IdleThread]
    /\ last_add = NoCall

\* main.rs Command::CreateBlockchain: create, then reindex
InitStore ==
    /\ blocks = GenesisBlocks
    /\ tip_key = Genesis.hash
    /\ tip_hash = Genesis.hash
    /\ chainstate = Reindexed(GenesisBlocks, Genesis.hash)
    /\ uuids = 1
    /\ miner = IdleThread
    /\ adder = IdleThread

\* the central node's process with no mining address
Init ==
    /\ InitStore
    /\ InitServer([node_addr |-> CENTRAL_NODE, mining_addr |-> NoMiningAddr])
    /\ running = FALSE
    /\ unreachable = {}

\* main.rs Command::Send with mine = 1: new_utxo_transaction, new_coinbase_tx,
\* mine_block (update_blocks_tree, set_tip_hash) and UTXOSet::update.  A run
\* that panics before mine_block writes leaves the state as it is.
Send(from, to, amount) ==
    /\ \E transaction \in NewUtxoTransaction(blocks, tip_hash, chainstate, from, to, amount),
          timestamp \in Timestamps :
         LET coinbase_tx == NewCoinbaseTx(from, uuids)
             txs == <<transaction, coinbase_tx>>
             block == MinedBlock(blocks, tip_hash, txs, timestamp)
         IN  /\ MineBlockAccepts(blocks, tip_hash, txs)
             /\ blocks' = Put(blocks, block.hash, block)
             /\ tip_key' = block.hash
             /\ tip_hash' = block.hash
             /\ chainstate' = Update(chainstate, block)
             /\ uuids' = uuids + 1
             /\ UNCHANGED <<miner, adder>>
             /\ UNCHANGED server_vars
             /\ last_add' = NoCall

\* main.rs Command::ReindexUtxo: UTXOSet::reindex
ReindexUtxo ==
    /\ chainstate' = Reindexed(blocks, tip_hash)
    /\ UNCHANGED <<blocks, tip_key, tip_hash, uuids, miner, adder>>
    /\ UNCHANGED server_vars
    /\ last_add' = NoCall

\* a store that takes every new block as its tip
MovesTipAlways(block, tip_block) == TRUE
\* a store that also takes a new block as high as its tip
MovesTipOnTie(block, tip_block) == block.height >= tip_block.height

\* blockchain.rs add_block: the offered block replaces the tip
MovesTip(block, tip_block) == block.height > tip_block.height

\* a store that skips a block only when the very same block is stored
AlreadyStoredSame(blks, block) ==
    block.hash \in DOMAIN blks /\ blks[block.hash] = block

\* blockchain.rs add_block, the presence check: a block is stored under the
\* offered block's hash
AlreadyStored(blks, block) == block.hash \in DOMAIN blks

\* blockchain.rs Blockchain::add_block on a block received from a peer, run
\* from its first line to its last with no other thread in between.  The
\* closure panics when the cached tip names no block of the transaction's
\* view; nothing is stored then.
AddBlock(block) ==
    /\ last_add' = [called |-> TRUE, block |-> block]
    /\ IF AlreadyStored(blocks, block)
       THEN UNCHANGED <<blocks, tip_key, tip_hash>>
       ELSE /\ Cardinality(DOMAIN blocks) < MaxBlocks
            /\ LET inserted == Put(blocks, block.hash, block)
               IN  /\ tip_hash \in DOMAIN inserted
                   /\ blocks' = inserted
                   /\ IF MovesTip(block, inserted[tip_hash])
                      THEN tip_key' = block.hash /\ tip_hash' = block.hash
                      ELSE UNCHANGED <<tip_key, tip_hash>>
    /\ UNCHANGED <<chainstate, uuids, miner, adder>>
    /\ UNCHANGED server_vars

\* `send` between any two wallets of the node while the store holds fewer
\* than `limit` blocks
SendUpTo(limit) ==
    \E from \in Wallets, to \in Wallets, amount \in Amounts :
        /\ Cardinality(DOMAIN blocks) < limit
        /\ Send(GetAddress(from), GetAddress(to), amount)

Next ==
    \/ SendUpTo(MaxBlocks)
    \/ ReindexUtxo
    \/ \E block \in OfferedBlocks : AddBlock(block)

Spec == Init /\ [][Next]_vars

\* The node's own operations only: every block is built by mine_block from a
\* transaction of new_utxo_transaction and a coinbase.
NextLocal ==
    \/ SendUpTo(MaxLocalBlocks)
    \/ ReindexUtxo

SpecLocal == Init /\ [][NextLocal]_vars

\* ------------------------------------------------- two handler threads

\* The store runs one transaction at a time and makes reads of the tree wait
\* while a transaction is between the start of its closure and its commit.
StoreLocked == adder.pc = "commit"

\* blocks a running call is still going to store
Pending ==
    (IF miner.pc \in {"tip", "height", "build", "store"} THEN 1 ELSE 0)
    + (IF adder.pc \in {"closure", "commit"} THEN 1 ELSE 0)

\* blockchain.rs mine_block, lines 87-89, called with a coinbase transaction
MineStart ==
    /\ miner.pc = "idle"
    /\ Cardinality(DOMAIN blocks) + Pending < MaxBlocks
    /\ LET transactions == <<NewCoinbaseTx(GetAddress("A"), uuids)>>
       IN  /\ \A i \in 1..Len(transactions) : IsCoinbase(transactions[i])
           /\ miner' = [pc |-> "tip", transactions |-> transactions]
    /\ uuids' = uuids + 1
    /\ UNCHANGED <<blocks, tip_key, tip_hash, chainstate, adder>>
    /\ UNCHANGED <<server_vars, last_add>>

\* get_best_height, line 197: get_tip_hash
MineReadTip ==
    /\ miner.pc = "tip"
    /\ miner' = [pc |-> "height", transactions |-> miner.transactions,
                 hash |-> tip_hash]
    /\ UNCHANGED <<blocks, tip_key, tip_hash, chainstate, uuids, adder>>
    /\ UNCHANGED <<server_vars, last_add>>

\* get_best_height, lines 196-201: the read of the tip block
MineReadHeight ==
    /\ miner.pc = "height"
    /\ ~StoreLocked
    /\ miner' = IF miner.hash \in DOMAIN blocks
                THEN [pc |-> "build", transactions |-> miner.transactions,
                      best_height |-> GetBestHeight(blocks, miner.hash)]
                ELSE [pc |-> "panicked"]
    /\ UNCHANGED <<blocks, tip_key, tip_hash, chainstate, uuids, adder>>
    /\ UNCHANGED <<server_vars, last_add>>

\* mine_block, line 92: Block::new on the tip the cache names now
MineBuild ==
    /\ miner.pc = "build"
    /\ \E timestamp \in Timestamps :
         miner' = [pc |-> "store",
                   block |-> NewBlock(tip_hash, miner.transactions,
                                      miner.best_height + 1, timestamp)]
    /\ UNCHANGED <<blocks, tip_key, tip_hash, chainstate, uuids, adder>>
    /\ UNCHANGED <<server_vars, last_add>>

\* mine_block, line 96: update_blocks_tree, one transaction
MineStore ==
    /\ miner.pc = "store"
    /\ ~StoreLocked
    /\ blocks' = Put(blocks, miner.block.hash, miner.block)
    /\ tip_key' = miner.block.hash
    /\ miner' = [pc |-> "set", block |-> miner.block]
    /\ UNCHANGED <<tip_hash, chainstate, uuids, adder>>
    /\ UNCHANGED <<server_vars, last_add>>

\* mine_block, line 97: set_tip_hash
MineSetTip ==
    /\ miner.pc = "set"
    /\ tip_hash' = miner.block.hash
    /\ miner' = IdleThread
    /\ UNCHANGED <<blocks, tip_key, chainstate, uuids, adder>>
    /\ UNCHANGED <<server_vars, last_add>>

\* add_block, lines 174-177: the presence check
AddStart(block) ==
    /\ adder.pc = "idle"
    /\ IF block.hash \in DOMAIN blocks
       THEN UNCHANGED adder
       ELSE /\ Cardinality(DOMAIN blocks) + Pending < MaxBlocks
            /\ adder' = [pc |-> "closure", block |-> block]
    /\ UNCHANGED <<blocks, tip_key, tip_hash, chainstate, uuids, miner>>
    /\ UNCHANGED <<server_vars, last_add>>

\* add_block, lines 178-189: the closure of the transaction.  Its writes are
\* staged; set_tip_hash acts on the cache at once.
AddClosure ==
    /\ adder.pc = "closure"
    /\ LET view == Put(blocks, adder.block.hash, adder.block)
       IN  IF tip_hash \notin DOMAIN view
           THEN adder' = [pc |-> "panicked"] /\ UNCHANGED tip_hash
           ELSE IF MovesTip(adder.block, view[tip_hash])
           THEN /\ tip_hash' = adder.block.hash
                /\ adder' = [pc |-> "commit", block |-> adder.block, tip |-> TRUE]
           ELSE /\ UNCHANGED tip_hash
                /\ adder' = [pc |-> "commit", block |-> adder.block, tip |-> FALSE]
    /\ UNCHANGED <<blocks, tip_key, chainstate, uuids, miner>>
    /\ UNCHANGED <<server_vars, last_add>>

\* add_block, line 190: the transaction commits its staged writes
AddCommit ==
    /\ adder.pc = "commit"
    /\ blocks' = Put(blocks, adder.block.hash, adder.block)
    /\ tip_key' = IF adder.tip THEN adder.block.hash ELSE tip_key
    /\ adder' = IdleThread
    /\ UNCHANGED <<tip_hash, chainstate, uuids, miner>>
    /\ UNCHANGED <<server_vars, last_add>>

NextConc ==
    \/ MineStart
    \/ MineReadTip
    \/ MineReadHeight
    \/ MineBuild
    \/ MineStore
    \/ MineSetTip
    \/ \E block \in OfferedBlocks : AddStart(block)
    \/ AddClosure
    \/ AddCommit

SpecConc == Init /\ [][NextConc]_vars

\* ------------------------------------------- serve: the Tx package handler

\* Most mine_block calls the Tx handlers make (each draws one Uuid).
MaxAttempts == 2

\* server.rs TRANSACTION_THRESHOLD
TRANSACTION_THRESHOLD == 2

\* config.rs Config::is_miner
IsMiner(cfg) == cfg.mining_addr # NoMiningAddr

\* memory_pool.rs MemoryPool::add: insert under the hex transaction id
PoolAdd(pool, tx) == Put(pool, HexEncode(tx.id), tx)
\* memory_pool.rs MemoryPool::remove
PoolRemove(pool, txid_hex) == Del(pool, txid_hex)
\* memory_pool.rs MemoryPool::len
PoolLen(pool) == Cardinality(DOMAIN pool)
\* memory_pool.rs MemoryPool::get_all: the values in one of the orders the
\* HashMap may iterate in
PoolGetAll(pool) == {[i \in 1..Len(order) |-> pool[order[i]]] : order \in Orders(DOMAIN pool)}

\* node.rs Nodes::get_nodes filtered as the broadcast loops do: the registry
\* in order without the addresses in `skip`
\* the registry with no address skipped
NodesAll(registry, skip) == registry

RECURSIVE NodesExcept(_, _)
NodesExcept(registry, skip) ==
    IF registry = <<>> THEN <<>>
    ELSE (IF registry[1] \in skip THEN <<>> ELSE <<registry[1]>>)
         \o NodesExcept(Tail(registry), skip)

\* server.rs send_data, lines 345-350, for the calls of one handler step: a
\* call whose connect fails evicts its address from the registry
AfterSendData(registry, calls) ==
    SelectSeq(registry,
              LAMBDA addr : ~(addr \in unreachable /\ \E i \in 1..Len(calls) : calls[i].to = addr))

\* send_data, lines 351-355: the calls that write their package to a socket
Connected(calls) == SelectSeq(calls, LAMBDA call : call.to \notin unreachable)

\* server.rs send_inv: the call to send_data
SendInv(addr, node_addr, op_type, items) ==
    [to |-> addr,
     pkg |-> [type |-> "Inv", addr_from |-> node_addr, op_type |-> op_type, items |-> items]]

\* A second payment signed by wallet A that spends the output PeerTx spends
DoubleSpendTx ==
    CHOOSE tx \in NewUtxoTransaction(GenesisBlocks, Genesis.hash,
                                     Reindexed(GenesisBlocks, Genesis.hash),
                                     GetAddress("A"), GetAddress("B"), 10) : TRUE
\* PeerTx with a signature that is not one of wallet A over its message
BadSignatureTx ==
    [PeerTx EXCEPT !.vin[1].signature = <<"sig", PublicKey("A"), <<"tampered">>>>]
\* a payment whose input names a transaction that is on no chain
OrphanTx ==
    LET tx == [PeerTx EXCEPT !.id = EmptyBytes, !.vin[1].txid = <<"unknown">>]
    IN  [tx EXCEPT !.id = TxHash(tx)]

\* a transaction written by a peer for which is_coinbase holds: one input
\* with an empty pub_key, and an output of the peer's choosing
ForgedCoinbaseTx ==
    LET tx == [id |-> EmptyBytes,
               vin |-> <<[NewTXInput(<<>>, 0) EXCEPT !.signature = <<"uuid", PeerUuids[1]>>]>>,
               vout |-> <<NewTXOutput(5 * SUBSIDY, GetAddress("B"))>>]
    IN  [tx EXCEPT !.id = TxHash(tx)]

\* The transactions peers and wallets send in Tx packages
OfferedTxs == {PeerTx, DoubleSpendTx, BadSignatureTx, OrphanTx}

\* the addresses Tx packages come from
Senders == {CENTRAL_NODE, OtherNode}

\* handler threads between the pool insert and the end of mine_block
InMining == Cardinality({t \in Threads : handlers[t].pc \in {"added", "collect", "mine"}})

\* serve, Package::Tx, lines 276-292: deserialize, add to the pool, and on the
\* central node announce the id to every other known node but the sender
TxAdd(t, addr_from, tx) ==
    /\ handlers[t].pc \in {"idle", "panicked"}
    /\ mempool' = PoolAdd(mempool, tx)
    /\ sent' = IF config.node_addr = CENTRAL_NODE
               THEN LET to == NodesExcept(nodes, {config.node_addr, addr_from})
                    IN  [i \in 1..Len(to) |->
                            SendInv(to[i], config.node_addr, "Tx", <<tx.id>>)]
               ELSE <<>>
    /\ nodes' = AfterSendData(nodes, sent')
    /\ handlers' = [handlers EXCEPT ![t] = [pc |-> "added", tx |-> tx]]
    /\ UNCHANGED <<blocks, tip_key, tip_hash, chainstate, uuids, miner, adder>>
    /\ UNCHANGED <<in_transit, network, config, running, unreachable, last_add>>

\* A Tx package with one of `txs` arrives on a connection whose thread is
\* free, while fewer than `limit` blocks were mined or are being mined.
TxAddUpTo(limit, txs) ==
    \E t \in Threads, addr_from \in Senders, tx \in txs :
        /\ (uuids - 1) + InMining < limit
        /\ TxAdd(t, addr_from, tx)

\* line 293: the pool is long enough and the node mines
TxCheck(t) ==
    /\ handlers[t].pc = "added"
    /\ handlers' = [handlers EXCEPT ![t] =
                       IF PoolLen(mempool) >= TRANSACTION_THRESHOLD /\ IsMiner(config)
                       THEN [pc |-> "collect", tx |-> handlers[t].tx]
                       ELSE IdleThread]
    /\ UNCHANGED <<blocks, tip_key, tip_hash, chainstate, uuids, miner, adder>>
    /\ UNCHANGED <<mempool, in_transit, nodes, network, sent, config, running, unreachable, last_add>>

\* lines 294-297: the coinbase transaction goes after the pool's transactions
TxCollect(t) ==
    /\ handlers[t].pc = "collect"
    /\ \E all \in PoolGetAll(mempool) :
         handlers' = [handlers EXCEPT ![t] =
                         [pc |-> "mine", tx |-> handlers[t].tx,
                          txs |-> Append(all, NewCoinbaseTx(config.mining_addr, uuids))]]
    /\ uuids' = uuids + 1
    /\ UNCHANGED <<blocks, tip_key, tip_hash, chainstate, miner, adder>>
    /\ UNCHANGED <<mempool, in_transit, nodes, network, sent, config, running, unreachable, last_add>>

\* lines 298-300: mine_block and reindex.  A transaction that does not verify
\* makes mine_block panic, which ends the thread.
TxMine(t) ==
    /\ handlers[t].pc = "mine"
    /\ IF MineBlockAccepts(blocks, tip_hash, handlers[t].txs)
       THEN \E timestamp \in Timestamps :
              LET new_block == MinedBlock(blocks, tip_hash, handlers[t].txs, timestamp)
                  stored == Put(blocks, new_block.hash, new_block)
              IN  /\ blocks' = stored
                  /\ tip_key' = new_block.hash
                  /\ tip_hash' = new_block.hash
                  /\ chainstate' = Reindexed(stored, new_block.hash)
                  /\ handlers' = [handlers EXCEPT ![t] =
                                     [pc |-> "remove", txs |-> handlers[t].txs,
                                      new_block |-> new_block, next |-> 1]]
       ELSE /\ handlers' = [handlers EXCEPT ![t] =
                               [pc |-> "panicked", txs |-> handlers[t].txs]]
            /\ UNCHANGED <<blocks, tip_key, tip_hash, chainstate>>
    /\ UNCHANGED <<uuids, miner, adder>>
    /\ UNCHANGED <<mempool, in_transit, nodes, network, sent, config, running, unreachable, last_add>>

\* lines 302-305, one iteration: remove the next mined transaction
TxRemove(t) ==
    /\ handlers[t].pc = "remove"
    /\ LET h == handlers[t]
       IN  /\ mempool' = PoolRemove(mempool, HexEncode(h.txs[h.next].id))
           /\ handlers' = [handlers EXCEPT ![t] =
                              IF h.next < Len(h.txs)
                              THEN [h EXCEPT !.next = @ + 1]
                              ELSE [pc |-> "inv", txs |-> h.txs, new_block |-> h.new_block]]
    /\ UNCHANGED <<blocks, tip_key, tip_hash, chainstate, uuids, miner, adder>>
    /\ UNCHANGED <<in_transit, nodes, network, sent, config, running, unreachable, last_add>>

\* lines 306-316: announce the new block to every other known node; the
\* handler has finished
TxInvBlock(t) ==
    /\ handlers[t].pc = "inv"
    /\ sent' = LET to == NodesExcept(nodes, {config.node_addr})
               IN  [i \in 1..Len(to) |->
                       SendInv(to[i], config.node_addr, "Block",
                               <<handlers[t].new_block.hash>>)]
    /\ nodes' = AfterSendData(nodes, sent')
    /\ handlers' = [handlers EXCEPT ![t] = IdleThread]
    /\ UNCHANGED <<blocks, tip_key, tip_hash, chainstate, uuids, miner, adder>>
    /\ UNCHANGED <<mempool, in_transit, network, config, running, unreachable, last_add>>

\* the configurations of a mining node
MinerConfigs ==
    {[node_addr |-> CENTRAL_NODE, mining_addr |-> GetAddress("B")],
     [node_addr |-> OtherNode, mining_addr |-> GetAddress("B")]}

\* startnode with a mining address on a fresh chain
InitTx ==
    /\ InitStore
    /\ \E cfg \in MinerConfigs : InitServer(cfg)
    /\ running = TRUE
    /\ unreachable = {}

NextTx ==
    \/ TxAddUpTo(MaxAttempts, OfferedTxs)
    \/ \E t \in Threads : TxCheck(t)
    \/ \E t \in Threads : TxCollect(t)
    \/ \E t \in Threads : TxMine(t)
    \/ \E t \in Threads : TxRemove(t)
    \/ \E t \in Threads : TxInvBlock(t)

SpecTx == InitTx /\ [][NextTx]_vars

\* the same miner when a peer sends PeerTx and a transaction it wrote itself
NextForged ==
    \/ TxAddUpTo(MaxAttempts, {PeerTx, ForgedCoinbaseTx})
    \/ \E t \in Threads : TxCheck(t)
    \/ \E t \in Threads : TxCollect(t)
    \/ \E t \in Threads : TxMine(t)
    \/ \E t \in Threads : TxRemove(t)
    \/ \E t \in Threads : TxInvBlock(t)

SpecForged == InitTx /\ [][NextForged]_vars

\* -------------------------------------------- serve: the other packages

\* Most hashes GLOBAL_BLOCKS_IN_TRANSIT may hold.
MaxInTransit == 3

\* server.rs NODE_VERSION
NODE_VERSION == 1

\* server.rs send_data: the package and the address it is written to
SendData(addr, pkg) == [to |-> addr, pkg |-> pkg]

\* a node that asks for blocks also when the heights are equal
WantsBlocksOnTie(local_best_height, best_height) == local_best_height <= best_height

\* serve, Package::Version, line 327: the peer's chain is higher
WantsBlocks(local_best_height, best_height) == local_best_height < best_height

\* serve, Package::Version, lines 325-331: the send calls of a node with the
\* store `blks` and tip cache `tip`
VersionReplies(blks, tip, node_addr, pkg) ==
    LET local_best_height == GetBestHeight(blks, tip)
    IN  (IF WantsBlocks(local_best_height, pkg.best_height)
         THEN <<SendData(pkg.addr_from, [type |-> "GetBlocks", addr_from |-> node_addr])>>
         ELSE <<>>)
        \o (IF local_best_height > pkg.best_height
            THEN <<SendData(pkg.addr_from,
                            [type |-> "Version", addr_from |-> node_addr,
                             version |-> NODE_VERSION,
                             best_height |-> GetBestHeight(blks, tip)])>>
            ELSE <<>>)

\* a node that announces its tip only
GetTipHashOnly(blks, tip) == <<tip>>

\* blockchain.rs Blockchain::get_block_hashes: the hashes from the tip back
\* to the genesis block.  A hash travels as the bytes of its hex string,
\* which are the bytes of the key the block is stored under.
GetBlockHashes(blks, tip) ==
    LET chain == ChainFrom(blks, tip)
    IN  [i \in 1..Len(chain) |-> chain[i].hash]

\* serve, Package::GetBlocks, lines 233-236
GetBlocksReplies(blks, tip, node_addr, pkg) ==
    <<SendData(pkg.addr_from,
               [type |-> "Inv", addr_from |-> node_addr, op_type |-> "Block",
                items |-> GetBlockHashes(blks, tip)])>>

\* serve, Package::GetData, lines 237-253: get_block, or the pool's get
GetDataReplies(blks, pool, node_addr, pkg) ==
    IF pkg.op_type = "Block"
    THEN IF pkg.id \in DOMAIN blks
         THEN <<SendData(pkg.addr_from,
                         [type |-> "Block", addr_from |-> node_addr, block |-> blks[pkg.id]])>>
         ELSE <<>>
    ELSE IF HexEncode(pkg.id) \in DOMAIN pool
         THEN <<SendData(pkg.addr_from,
                         [type |-> "Tx", addr_from |-> node_addr,
                          transaction |-> pool[HexEncode(pkg.id)]])>>
         ELSE <<>>

\* BlockInTransit::remove leaving the list as it is
TransitKeep(hashes, block_hash) == hashes

\* BlockInTransit::remove dropping every entry equal to the hash
TransitRemoveAll(hashes, block_hash) ==
    SelectSeq(hashes, LAMBDA h : h # block_hash)

\* memory_pool.rs BlockInTransit::remove: drop the first entry equal to the hash
RECURSIVE TransitRemove(_, _)
TransitRemove(hashes, block_hash) ==
    IF hashes = <<>> THEN <<>>
    ELSE IF hashes[1] = block_hash THEN Tail(hashes)
    ELSE <<hashes[1]>> \o TransitRemove(Tail(hashes), block_hash)

\* serve, Package::Version, lines 319-335.  `peer_addr` is the remote address
\* of the connection.
HandleVersion(peer_addr, pkg) ==
    /\ sent' = VersionReplies(blocks, tip_hash, config.node_addr, pkg)
    /\ nodes' = LET registry == AfterSendData(nodes, sent')
                IN  IF \E i \in 1..Len(registry) : registry[i] \in {peer_addr, pkg.addr_from}
                    THEN registry
                    ELSE Append(registry, pkg.addr_from)
    /\ UNCHANGED <<blocks, tip_key, tip_hash, chainstate, uuids, miner, adder>>
    /\ UNCHANGED <<mempool, in_transit, config, handlers, running, unreachable, last_add>>

\* serve, Package::GetBlocks
HandleGetBlocks(pkg) ==
    /\ sent' = GetBlocksReplies(blocks, tip_hash, config.node_addr, pkg)
    /\ UNCHANGED <<blocks, tip_key, tip_hash, chainstate, uuids, miner, adder>>
    /\ nodes' = AfterSendData(nodes, sent')
    /\ UNCHANGED <<mempool, in_transit, config, handlers, running, unreachable, last_add>>

\* serve, Package::GetData
HandleGetData(pkg) ==
    /\ sent' = GetDataReplies(blocks, mempool, config.node_addr, pkg)
    /\ UNCHANGED <<blocks, tip_key, tip_hash, chainstate, uuids, miner, adder>>
    /\ nodes' = AfterSendData(nodes, sent')
    /\ UNCHANGED <<mempool, in_transit, config, handlers, running, unreachable, last_add>>

\* serve, Package::Inv, lines 254-271.  For blocks: add_blocks, then get_data
\* for the first item, which is removed again.  For a transaction: get_data
\* unless the pool holds it.  An empty item list makes first().unwrap() panic
\* after add_blocks has run.
HandleInv(pkg) ==
    /\ IF pkg.op_type = "Block"
       THEN /\ Len(in_transit) + Len(pkg.items) <= MaxInTransit + 1
            /\ IF pkg.items = <<>>
               THEN sent' = <<>> /\ UNCHANGED in_transit
               ELSE /\ sent' = <<SendData(pkg.addr_from,
                                          [type |-> "GetData", addr_from |-> config.node_addr,
                                           op_type |-> "Block", id |-> pkg.items[1]])>>
                    /\ in_transit' = TransitRemove(in_transit \o pkg.items, pkg.items[1])
       ELSE /\ pkg.items # <<>>
            /\ sent' = IF HexEncode(pkg.items[1]) \in DOMAIN mempool
                       THEN <<>>
                       ELSE <<SendData(pkg.addr_from,
                                       [type |-> "GetData", addr_from |-> config.node_addr,
                                        op_type |-> "Tx", id |-> pkg.items[1]])>>
            /\ UNCHANGED in_transit
    /\ UNCHANGED <<blocks, tip_key, tip_hash, chainstate, uuids, miner, adder>>
    /\ nodes' = AfterSendData(nodes, sent')
    /\ UNCHANGED <<mempool, config, handlers, running, unreachable, last_add>>

\* serve, Package::Block, lines 223-232: add_block, then get_data for the
\* first hash in transit, which is removed
HandleBlock(pkg) ==
    /\ last_add' = [called |-> TRUE, block |-> pkg.block]
    /\ IF AlreadyStored(blocks, pkg.block)
       THEN UNCHANGED <<blocks, tip_key, tip_hash>>
       ELSE LET inserted == Put(blocks, pkg.block.hash, pkg.block)
            IN  /\ tip_hash \in DOMAIN inserted
                /\ blocks' = inserted
                /\ IF MovesTip(pkg.block, inserted[tip_hash])
                   THEN tip_key' = pkg.block.hash /\ tip_hash' = pkg.block.hash
                   ELSE UNCHANGED <<tip_key, tip_hash>>
    /\ IF in_transit # <<>>
       THEN /\ sent' = <<SendData(pkg.addr_from,
                                  [type |-> "GetData", addr_from |-> config.node_addr,
                                   op_type |-> "Block", id |-> in_transit[1]])>>
            /\ in_transit' = TransitRemove(in_transit, in_transit[1])
       ELSE sent' = <<>> /\ UNCHANGED in_transit
    /\ UNCHANGED <<chainstate, uuids, miner, adder>>
    /\ nodes' = AfterSendData(nodes, sent')
    /\ UNCHANGED <<mempool, config, handlers, running, unreachable>>

\* serve: one package read from a connection and handled
Handle(peer_addr, pkg) ==
    \/ pkg.type = "Version" /\ HandleVersion(peer_addr, pkg)
    \/ pkg.type = "GetBlocks" /\ HandleGetBlocks(pkg)
    \/ pkg.type = "GetData" /\ HandleGetData(pkg)
    \/ pkg.type = "Inv" /\ HandleInv(pkg)
    \/ pkg.type = "Block" /\ HandleBlock(pkg)

\* the remote addresses connections come from (ports chosen by the peer's
\* system)
PeerSockets == {"127.0.0.1:49152"}

\* the heights peers announce
Heights == {0, 1, 2}

\* The packages a peer may send to this node.  A Version package carries the
\* address the peer chose to announce: the address OtherNode listens on, or
\* the address its connection comes from.
OfferedPackages ==
    {[type |-> "Version", addr_from |-> a, version |-> NODE_VERSION,
      best_height |-> h] : a \in {OtherNode} \cup PeerSockets, h \in Heights}
    \cup {[type |-> "Block", addr_from |-> OtherNode, block |-> b] : b \in OfferedBlocks}
    \cup {[type |-> "GetBlocks", addr_from |-> OtherNode]}
    \cup {[type |-> "GetData", addr_from |-> OtherNode, op_type |-> "Block", id |-> id] :
             id \in {Genesis.hash, PeerBlock2.hash}}
    \cup {[type |-> "GetData", addr_from |-> OtherNode, op_type |-> "Tx", id |-> PeerTx.id]}
    \cup {[type |-> "Inv", addr_from |-> OtherNode, op_type |-> "Block", items |-> items] :
             items \in {<<PeerBlock1.hash>>, <<PeerBlock2.hash, PeerBlock1.hash>>}}
    \cup {[type |-> "Inv", addr_from |-> OtherNode, op_type |-> "Tx", items |-> <<PeerTx.id>>]}

\* the central node's server handling what a peer sends; the peer is no part
\* of the model, what is written to it is not kept
Serve(peer_addr, pkg) ==
    /\ (pkg.type = "Block" /\ ~AlreadyStored(blocks, pkg.block)) =>
           Cardinality(DOMAIN blocks) < MaxBlocks
    /\ Handle(peer_addr, pkg)
    /\ UNCHANGED network

\* startnode on the central node, while the node OtherNode accepts
\* connections or refuses them
InitServe ==
    /\ InitStore
    /\ InitServer([node_addr |-> CENTRAL_NODE, mining_addr |-> NoMiningAddr])
    /\ running = TRUE
    /\ unreachable \in SUBSET {OtherNode}

NextServe == \E peer_addr \in PeerSockets, pkg \in OfferedPackages : Serve(peer_addr, pkg)

SpecServe == InitServe /\ [][NextServe]_vars

\* the configurations of a node that relays and does not mine
RelayConfigs ==
    {[node_addr |-> CENTRAL_NODE, mining_addr |-> NoMiningAddr],
     [node_addr |-> OtherNode, mining_addr |-> NoMiningAddr]}

\* startnode without a mining address, while the node OtherNode accepts
\* connections or refuses them
InitRelay ==
    /\ InitStore
    /\ \E cfg \in RelayConfigs : InitServer(cfg)
    /\ running = TRUE
    /\ unreachable \in SUBSET {OtherNode}

\* peers announce themselves and send transactions
NextRelay ==
    \/ \E peer_addr \in PeerSockets, pkg \in OfferedPackages :
          pkg.type = "Version" /\ HandleVersion(peer_addr, pkg) /\ UNCHANGED network
    \/ TxAddUpTo(MaxAttempts, OfferedTxs)
    \/ \E t \in Threads : TxCheck(t)

SpecRelay == InitRelay /\ [][NextRelay]_vars

\* ------------------------------------ Block packages on two handler threads

\* serve, Package::Block, lines 223-226, on the thread of a connection:
\* deserialize and add_block
BlockAdd(t, pkg) ==
    /\ handlers[t].pc \in {"idle", "panicked"}
    /\ ~AlreadyStored(blocks, pkg.block) => Cardinality(DOMAIN blocks) < MaxBlocks
    /\ last_add' = [called |-> TRUE, block |-> pkg.block]
    /\ IF AlreadyStored(blocks, pkg.block)
       THEN UNCHANGED <<blocks, tip_key, tip_hash>>
       ELSE LET inserted == Put(blocks, pkg.block.hash, pkg.block)
            IN  /\ tip_hash \in DOMAIN inserted
                /\ blocks' = inserted
                /\ IF MovesTip(pkg.block, inserted[tip_hash])
                   THEN tip_key' = pkg.block.hash /\ tip_hash' = pkg.block.hash
                   ELSE UNCHANGED <<tip_key, tip_hash>>
    /\ handlers' = [handlers EXCEPT ![t] = [pc |-> "check", addr_from |-> pkg.addr_from]]
    /\ UNCHANGED <<chainstate, uuids, miner, adder>>
    /\ UNCHANGED <<mempool, in_transit, nodes, network, sent, config, running, unreachable>>

\* line 227: GLOBAL_BLOCKS_IN_TRANSIT.is_empty(), under the list's lock
BlockCheck(t) ==
    /\ handlers[t].pc = "check"
    /\ handlers' = [handlers EXCEPT ![t] =
                       IF in_transit # <<>>
                       THEN [pc |-> "first", addr_from |-> handlers[t].addr_from]
                       ELSE IdleThread]
    /\ UNCHANGED <<blocks, tip_key, tip_hash, chainstate, uuids, miner, adder>>
    /\ UNCHANGED <<mempool, in_transit, nodes, network, sent, config, running, unreachable, last_add>>

\* line 228: first().unwrap(), the lock taken again: None makes the thread
\* panic
BlockFirst(t) ==
    /\ handlers[t].pc = "first"
    /\ handlers' = [handlers EXCEPT ![t] =
                       IF in_transit # <<>>
                       THEN [pc |-> "request", addr_from |-> handlers[t].addr_from,
                             block_hash |-> in_transit[1]]
                       ELSE [pc |-> "panicked", at |-> "first"]]
    /\ UNCHANGED <<blocks, tip_key, tip_hash, chainstate, uuids, miner, adder>>
    /\ UNCHANGED <<mempool, in_transit, nodes, network, sent, config, running, unreachable, last_add>>

\* lines 229-230: send_get_data for the hash read, and remove, which takes
\* the lock a third time; the handler has finished
BlockRequest(t) ==
    /\ handlers[t].pc = "request"
    /\ sent' = <<SendData(handlers[t].addr_from,
                          [type |-> "GetData", addr_from |-> config.node_addr,
                           op_type |-> "Block", id |-> handlers[t].block_hash])>>
    /\ nodes' = AfterSendData(nodes, sent')
    /\ in_transit' = TransitRemove(in_transit, handlers[t].block_hash)
    /\ handlers' = [handlers EXCEPT ![t] = IdleThread]
    /\ UNCHANGED <<blocks, tip_key, tip_hash, chainstate, uuids, miner, adder>>
    /\ UNCHANGED <<mempool, network, config, running, unreachable, last_add>>

\* peers advertise blocks and send them, on connections served by two threads
NextBlocks ==
    \/ \E pkg \in OfferedPackages :
          pkg.type = "Inv" /\ pkg.op_type = "Block" /\ HandleInv(pkg) /\ UNCHANGED network
    \/ \E t \in Threads, pkg \in OfferedPackages : pkg.type = "Block" /\ BlockAdd(t, pkg)
    \/ \E t \in Threads : BlockCheck(t)
    \/ \E t \in Threads : BlockFirst(t)
    \/ \E t \in Threads : BlockRequest(t)

SpecBlocks == InitServe /\ [][NextBlocks]_vars

\* ------------------------------------------------- a node and the central node

\* The store of the central node: the peer's chain, which does not change
PeerBlocks ==
    Put(Put(GenesisBlocks, PeerBlock1.hash, PeerBlock1), PeerBlock2.hash, PeerBlock2)

\* serve on the central node: the send calls it answers a package with.  The
\* packages a syncing node sends it are Version, GetBlocks and GetData.
PeerReplies(pkg) ==
    IF pkg.type = "Version"
    THEN VersionReplies(PeerBlocks, PeerBlock2.hash, CENTRAL_NODE, pkg)
    ELSE IF pkg.type = "GetBlocks"
    THEN GetBlocksReplies(PeerBlocks, PeerBlock2.hash, CENTRAL_NODE, pkg)
    ELSE IF pkg.type = "GetData"
    THEN GetDataReplies(PeerBlocks, EmptyMap, CENTRAL_NODE, pkg)
    ELSE <<>>

\* server.rs Server::run, lines 41-46: bind, and away from the central node
\* send the own best height to it
StartNode ==
    /\ ~running
    /\ running' = TRUE
    /\ sent' = IF config.node_addr # CENTRAL_NODE
               THEN <<SendData(CENTRAL_NODE,
                               [type |-> "Version", addr_from |-> config.node_addr,
                                version |-> NODE_VERSION,
                                best_height |-> GetBestHeight(blocks, tip_hash)])>>
               ELSE <<>>
    /\ nodes' = AfterSendData(nodes, sent')
    /\ network' = network \o Connected(sent')
    /\ UNCHANGED <<blocks, tip_key, tip_hash, chainstate, uuids, miner, adder>>
    /\ UNCHANGED <<mempool, in_transit, config, handlers, unreachable, last_add>>

\* the node reads the package at position i from a connection and handles it
NodeReceives(i) ==
    /\ running
    /\ network[i].to = config.node_addr
    /\ \E peer_addr \in PeerSockets : Handle(peer_addr, network[i].pkg)
    /\ network' = WithoutIndex(network, i - 1) \o Connected(sent')

\* the central node reads the package at position i and handles it
PeerReceives(i) ==
    /\ network[i].to = CENTRAL_NODE
    /\ network' = WithoutIndex(network, i - 1) \o PeerReplies(network[i].pkg)
    /\ UNCHANGED <<blocks, tip_key, tip_hash, chainstate, uuids, miner, adder>>
    /\ UNCHANGED <<mempool, in_transit, nodes, sent, config, handlers, running, unreachable, last_add>>

\* `send` on the node before its server is started, while its chain is
\* shorter than the central node's
SendBeforeStart ==
    /\ ~running
    /\ SendUpTo(Cardinality(DOMAIN PeerBlocks) - 1)

\* a second node on the chain created with the same genesis block, to be
\* started with or without a mining address
InitSync ==
    /\ InitStore
    /\ \E mining_addr \in {NoMiningAddr, GetAddress("B")} :
          InitServer([node_addr |-> OtherNode, mining_addr |-> mining_addr])
    /\ running = FALSE
    /\ unreachable = {}

NextSync ==
    \/ SendBeforeStart
    \/ StartNode
    \/ \E i \in 1..Len(network) : NodeReceives(i)
    \/ \E i \in 1..Len(network) : PeerReceives(i)

\* The node is started, and every package written to a connection is read
\* and handled.
SpecSync ==
    /\ InitSync
    /\ [][NextSync]_vars
    /\ WF_vars(StartNode)
    /\ WF_vars(\E i \in 1..Len(network) : NodeReceives(i))
    /\ WF_vars(\E i \in 1..Len(network) : PeerReceives(i))

\* ------------------------------------------------------ Server::run

\* Most packages a peer has written to a connection that is not yet accepted.
MaxUnread == 2

\* server.rs send_data on a peer, lines 345-354: connect to the node's
\* listener and write a package.  `network` holds what was written to the
\* connection the listener yields next.
PeerWrites(pkg) ==
    /\ running
    /\ Len(network) < MaxUnread
    /\ network' = Append(network, SendData(config.node_addr, pkg))
    /\ UNCHANGED <<blocks, tip_key, tip_hash, chainstate, uuids, miner, adder>>
    /\ UNCHANGED <<mempool, in_transit, nodes, sent, config, handlers, running, unreachable, last_add>>

\* Server::run, lines 47-49: listener.incoming() yields the connection and a
\* thread is spawned, whose closure owns the stream
RunAccept(t) ==
    /\ running
    /\ network # <<>>
    /\ handlers[t].pc = "idle"
    /\ handlers' = [handlers EXCEPT ![t] = [pc |-> "spawned", stream |-> network]]
    /\ network' = <<>>
    /\ UNCHANGED <<blocks, tip_key, tip_hash, chainstate, uuids, miner, adder>>
    /\ UNCHANGED <<mempool, in_transit, nodes, sent, config, running, unreachable, last_add>>

\* Server::run, lines 49-56: the closure matches Ok(_stream) with an empty
\* arm; the stream is dropped with what was written to it unread, and the
\* thread ends.  serve is not called.
RunThread(t) ==
    /\ handlers[t].pc = "spawned"
    /\ handlers' = [handlers EXCEPT ![t] = IdleThread]
    /\ UNCHANGED <<blocks, tip_key, tip_hash, chainstate, uuids, miner, adder>>
    /\ UNCHANGED <<mempool, in_transit, nodes, network, sent, config, running, unreachable, last_add>>

NextRun ==
    \/ StartNode
    \/ \E pkg \in OfferedPackages :
          pkg.type = "Block" /\ pkg.block \in {PeerBlock1, PeerBlock2} /\ PeerWrites(pkg)
    \/ \E t \in Threads : RunAccept(t)
    \/ \E t \in Threads : RunThread(t)

\* startnode on the central node: the listener is bound, connections are
\* accepted and every spawned thread runs
SpecRun ==
    /\ Init
    /\ [][NextRun]_vars
    /\ WF_vars(StartNode)
    /\ WF_vars(\E t \in Threads : RunAccept(t))
    /\ WF_vars(\E t \in Threads : RunThread(t))

\* ------------------------------------- a miner that holds the peer's chain

\* Most blocks the miner of this section mines or starts to mine.
MaxLiveAttempts == 3

\* payments that verify against the peer's chain: wallet A sends the 7 it
\* has left to B, and wallet B sends 10 to A
SpendA ==
    CHOOSE tx \in NewUtxoTransaction(PeerBlocks, PeerBlock2.hash,
                                     Reindexed(PeerBlocks, PeerBlock2.hash),
                                     GetAddress("A"), GetAddress("B"), 7) : TRUE
SpendB ==
    CHOOSE tx \in NewUtxoTransaction(PeerBlocks, PeerBlock2.hash,
                                     Reindexed(PeerBlocks, PeerBlock2.hash),
                                     GetAddress("B"), GetAddress("A"), 10) : TRUE

\* SpendA with a signature that is not one of wallet A over its message
TamperedSpendA ==
    [SpendA EXCEPT !.vin[1].signature = <<"sig", PublicKey("A"), <<"tampered">>>>]

\* startnode with a mining address on a store that holds the central node's
\* chain
InitLive ==
    /\ blocks = PeerBlocks
    /\ tip_key = PeerBlock2.hash
    /\ tip_hash = PeerBlock2.hash
    /\ chainstate = Reindexed(PeerBlocks, PeerBlock2.hash)
    /\ uuids = 1
    /\ miner = IdleThread
    /\ adder = IdleThread
    /\ InitServer([node_addr |-> OtherNode, mining_addr |-> GetAddress("B")])
    /\ running = TRUE
    /\ unreachable = {}

\* the miner's Tx branch when peers send it these two payments, the copy
\* with the wrong signature and a payment that spends an unknown transaction
NextLive ==
    \/ TxAddUpTo(MaxLiveAttempts, {SpendA, SpendB, TamperedSpendA, OrphanTx})
    \/ \E t \in Threads : TxCheck(t)
    \/ \E t \in Threads : TxCollect(t)
    \/ \E t \in Threads : TxMine(t)
    \/ \E t \in Threads : TxRemove(t)
    \/ \E t \in Threads : TxInvBlock(t)

\* line 298 as the calling thread sees it: mine_block panics, or returns the
\* block it built
MineBlockEnds(t) ==
    /\ handlers[t].pc = "mine"
    /\ \E timestamp \in Timestamps :
          \/ handlers' = [handlers EXCEPT ![t] = [pc |-> "panicked", txs |-> handlers[t].txs]]
          \/ handlers' = [handlers EXCEPT ![t] =
                              [pc |-> "remove", txs |-> handlers[t].txs,
                               new_block |-> MinedBlock(blocks, tip_hash, handlers[t].txs,
                                                        timestamp),
                               next |-> 1]]

\* Packages arrive whenever peers send them; a handler thread that has read
\* its package runs on to the end of the branch, and every call to
\* mine_block ends.
SpecLive ==
    /\ InitLive
    /\ [][NextLive]_vars
    /\ \A t \in Threads :
          /\ WF_vars(TxCheck(t))
          /\ WF_vars(TxCollect(t))
          /\ WF_handlers(MineBlockEnds(t))
          /\ WF_vars(TxRemove(t))
          /\ WF_vars(TxInvBlock(t))

\* ------------------------------------------------ proof of work on its own

\* the largest timestamp of a header handed to the proof of work
MaxTimestamp == 7

\* The blocks Block::new hands to ProofOfWork::run before the nonce and the
\* hash are set: every timestamp up to MaxTimestamp, on three parents, with
\* three transaction lists.
Headers ==
    { [timestamp |-> ts, pre_block_hash |-> pre, hash |-> HexEncode(EmptyBytes),
       transactions |-> txs, nonce |-> 0, height |-> IF pre = NoneHash THEN 0 ELSE 1] :
        ts \in 0..MaxTimestamp,
        pre \in {NoneHash, Genesis.hash, PeerBlock1.hash},
        txs \in {<<NewCoinbaseTx(GetAddress("A"), 0)>>,
                 <<PeerTx, NewCoinbaseTx(GetAddress("B"), PeerUuids[1])>>,
                 <<NewCoinbaseTx(GetAddress("B"), PeerUuids[2])>>} }

\* block.rs Block::new before pow.run(): the miner holds a block to work on
InitPow ==
    /\ blocks = GenesisBlocks
    /\ tip_key = Genesis.hash
    /\ tip_hash = Genesis.hash
    /\ chainstate = Reindexed(GenesisBlocks, Genesis.hash)
    /\ uuids = 1
    /\ adder = IdleThread
    /\ InitServer([node_addr |-> CENTRAL_NODE, mining_addr |-> NoMiningAddr])
    /\ running = FALSE
    /\ unreachable = {}
    /\ \E header \in Headers : miner = [pc |-> "run", block |-> header]

\* proof_of_work.rs ProofOfWork::run on the block the miner holds
RunPow ==
    /\ miner.pc = "run"
    /\ miner' = [pc |-> "returned", block |-> miner.block, result |-> Run(miner.block)]
    /\ UNCHANGED <<blocks, tip_key, tip_hash, chainstate, uuids, adder, server_vars, last_add>>

SpecPow == InitPow /\ [][RunPow]_vars

\* ------------------------------------------------------------------ claims

\* the transactions of the best chain, tip to genesis
BestChainTxs == ChainTxs(ChainFrom(blocks, tip_hash))

\* some non-coinbase input on the best chain names output (txid, vout)
SpentOnChain(txid, vout) ==
    \E i \in 1..Len(BestChainTxs) :
        /\ ~IsCoinbase(BestChainTxs[i])
        /\ \E j \in 1..Len(BestChainTxs[i].vin) :
              /\ BestChainTxs[i].vin[j].txid = txid
              /\ BestChainTxs[i].vin[j].vout = vout

\* every output on the best chain carries a positive value
PositiveValues ==
    \A i \in 1..Len(BestChainTxs) :
        \A j \in 1..Len(BestChainTxs[i].vout) : BestChainTxs[i].vout[j].value > 0

\* no output present in chainstate, read as (txid, list index), is spent
NoSpentInChainstate ==
    \A txid \in DOMAIN chainstate :
        \A vout \in 0..(Len(chainstate[txid]) - 1) : ~SpentOnChain(txid, vout)

\* C1: after every reindex and every update, on a chain built by mine_block
\* alone, no (txid, vout) present in chainstate is referenced by an input of a
\* transaction on the chain.  Stated here for the chains whose outputs all
\* carry positive values.
C1_ChainstateUnspent == PositiveValues => NoSpentInChainstate

\* C2: after block applications each followed by update, chainstate equals the
\* map find_utxo computes from the whole chain.  Stated here for the chains
\* whose outputs all carry positive values.
C2_ChainstateIsFindUtxo ==
    PositiveValues => chainstate = Reindexed(blocks, tip_hash)

\* C6: verify is true only if every input's pub_key hashes to the pub_key_hash
\* of the prior output it references, hence no transaction mined by mine_block
\* spends an output locked to another key.  Stated here for the chains built
\* by mine_block alone whose outputs all carry positive values.
C6_SpendsOwnOutputs ==
    PositiveValues =>
        \A i \in 1..Len(BestChainTxs) :
            ~IsCoinbase(BestChainTxs[i]) =>
                \A j \in 1..Len(BestChainTxs[i].vin) :
                    /\ PrevResolves(blocks, tip_hash, BestChainTxs[i].vin[j])
                    /\ IsLockedWithKey(
                           PrevOutput(blocks, tip_hash, BestChainTxs[i].vin[j]),
                           HashPubKey(BestChainTxs[i].vin[j].pub_key))

\* the walk from `hash` along pre_block_hash meets stored blocks only, ends at
\* the genesis marker, and every block on it is one higher than its parent
RECURSIVE WalkReachesNone(_, _)
WalkReachesNone(blks, hash) ==
    IF hash = NoneHash THEN TRUE
    ELSE IF hash \notin DOMAIN blks THEN FALSE
    ELSE LET parent == blks[hash].pre_block_hash
         IN  /\ parent # NoneHash =>
                    /\ parent \in DOMAIN blks
                    /\ blks[hash].height = blks[parent].height + 1
             /\ WalkReachesNone(blks, parent)

\* C3: after any sequence of create, mine_block and add_block (blocks from a
\* peer in any order), the walk from the tip along pre_block_hash reaches
\* "None" through stored blocks only, each block one higher than its parent.
C3_TipWalksToGenesis == WalkReachesNone(blocks, tip_key)

\* C4: every stored block's hash field is the hash of its header at its
\* stored nonce, and that hash read as an integer is below the target.
C4_StoredBlocksHaveWork ==
    \A h \in DOMAIN blocks :
        LET digest == Sha256Digest(PrepareData(blocks[h], blocks[h].nonce))
        IN  /\ blocks[h].hash = HexEncode(digest)
            /\ FromBytesBe(digest) < Target

\* C5: every non-coinbase transaction of a block on the best chain verifies
\* against that chain, blocks stored by add_block included.
C5_BestChainVerifies ==
    \A i \in 1..Len(BestChainTxs) :
        ~IsCoinbase(BestChainTxs[i]) =>
            Verify(blocks, tip_hash, BestChainTxs[i]) = "true"

\* C7: every transaction returned by new_coinbase_tx and new_utxo_transaction
\* has an id equal to the hash of its serialization with the id cleared.  On
\* a chain built by the node alone the transactions of the chain are exactly
\* the returned ones.
C7_IdIsHash ==
    \A i \in 1..Len(BestChainTxs) : BestChainTxs[i].id = TxHash(BestChainTxs[i])

\* C8: across successive mine_block and add_block calls the value of
\* get_best_height never decreases.
C8_BestHeightMonotonic ==
    [][GetBestHeight(blocks', tip_hash') >= GetBestHeight(blocks, tip_hash)]_vars

\* the node mined a block on genesis and then received a peer's block of the
\* same height, which did not move the tip
C8_Witness ==
    /\ PeerBlock1.hash \in DOMAIN blocks
    /\ tip_hash # PeerBlock1.hash
    /\ GetBestHeight(blocks, tip_hash) = 1

\* C9: at every instant, also in the middle of mine_block or add_block in
\* another thread, the persistent tip key and the tip cache both name a block
\* present in the blocks namespace.
C9_TipsNameStoredBlocks ==
    /\ tip_key \in DOMAIN blocks
    /\ tip_hash \in DOMAIN blocks

\* C10: with mine_block and add_block run by different threads, whenever no
\* call is in progress the tip cache equals the persistent tip key and the
\* tip is a block of the greatest height in the store.
C10_QuiescentTipsAgree ==
    (miner.pc = "idle" /\ adder.pc = "idle") =>
        /\ tip_hash = tip_key
        /\ tip_key \in DOMAIN blocks
        /\ \A h \in DOMAIN blocks : blocks[h].height <= blocks[tip_key].height

\* the step is an add_block call on `last_add'.block`
AddBlockCalled == last_add'.called /\ last_add' # last_add

\* C18: add_block of a block whose hash is not stored yet always stores the
\* block, and moves the tip key and the tip cache together to it exactly when
\* its height is greater than the height of the current tip; otherwise the
\* tip key and the tip cache stay as they were.
C18_NewBlockStoredTipByHeight ==
    [][(AddBlockCalled /\ last_add'.block.hash \notin DOMAIN blocks) =>
          LET block == last_add'.block
          IN  /\ block.hash \in DOMAIN blocks'
              /\ blocks'[block.hash] = block
              /\ \A h \in DOMAIN blocks : blocks'[h] = blocks[h]
              /\ IF block.height > blocks[tip_hash].height
                 THEN tip_key' = block.hash /\ tip_hash' = block.hash
                 ELSE UNCHANGED <<tip_key, tip_hash>>]_vars

\* a peer's block of the tip's height was stored and the tip stayed
C18_Witness ==
    /\ last_add.called
    /\ last_add.block = PeerBlock1
    /\ blocks[PeerBlock1.hash] = PeerBlock1
    /\ tip_key = tip_hash
    /\ tip_key # PeerBlock1.hash
    /\ blocks[tip_key].height = PeerBlock1.height

\* C19: add_block of a block whose hash is already stored leaves the stored
\* blocks, the tip key and the tip cache unchanged, whatever the other fields
\* of the offered block are.
C19_StoredHashIsNoOp ==
    [][(AddBlockCalled /\ last_add'.block.hash \in DOMAIN blocks) =>
          UNCHANGED <<blocks, tip_key, tip_hash>>]_vars

\* a block with the hash of a stored block and another signature was offered
C19_Witness ==
    /\ last_add.called
    /\ last_add.block = TamperedSignature(PeerBlock1)
    /\ PeerBlock1.hash \in DOMAIN blocks
    /\ blocks[PeerBlock1.hash] = PeerBlock1

\* the handler thread `t` ends its mining branch in this step
MiningBranchEnds(t) == handlers[t].pc = "inv" /\ handlers'[t].pc = "idle"

\* C11: when the Tx handler of a miner has mined a block and completed its
\* mining branch, every transaction of that block is absent from the memory
\* pool, whatever other handler threads added in between.
C11_MinedTxsLeavePool ==
    [][\A t \in Threads :
          MiningBranchEnds(t) =>
              \A i \in 1..Len(handlers[t].new_block.transactions) :
                  HexEncode(handlers[t].new_block.transactions[i].id)
                      \notin DOMAIN mempool']_vars

\* transactions `a` and `b` have an input naming the same (txid, vout)
SharesInput(a, b) ==
    \E i \in 1..Len(a.vin), j \in 1..Len(b.vin) :
        a.vin[i].txid = b.vin[j].txid /\ a.vin[i].vout = b.vin[j].vout

\* C12: no two distinct entries of the memory pool have an input naming the
\* same (txid, vout), and no entry names an output that is already spent on
\* the chain.
C12_PoolSpendsOnce ==
    /\ \A k1, k2 \in DOMAIN mempool :
          k1 # k2 => ~SharesInput(mempool[k1], mempool[k2])
    /\ \A k \in DOMAIN mempool :
          \A i \in 1..Len(mempool[k].vin) :
              ~SpentOnChain(mempool[k].vin[i].txid, mempool[k].vin[i].vout)

\* `tx` is a transaction of a block of the best chain
OnBestChain(tx) == \E i \in 1..Len(BestChainTxs) : BestChainTxs[i] = tx

\* C13: of two distinct correctly signed transactions that spend the same
\* (txid, vout), submitted to a miner, at most one is in the chain after
\* mining, and once one is mined exactly one of the two verifies against the
\* chain.
C13_DoubleSpendMinedOnce ==
    /\ ~(OnBestChain(PeerTx) /\ OnBestChain(DoubleSpendTx))
    /\ (OnBestChain(PeerTx) \/ OnBestChain(DoubleSpendTx)) =>
           (Verify(blocks, tip_hash, PeerTx) = "true")
               # (Verify(blocks, tip_hash, DoubleSpendTx) = "true")

\* the handler thread `t` takes a Tx package in this step
TxPackageTaken(t) == handlers[t].pc \in {"idle", "panicked"} /\ handlers'[t].pc = "added"

\* C14: a Tx package whose transaction does not verify (bad signature or
\* missing prior transaction) leaves the memory pool unchanged and causes no
\* Inv broadcast.
C14_UnverifiedTxRejected ==
    [][\A t \in Threads :
          (TxPackageTaken(t) /\ Verify(blocks, tip_hash, handlers'[t].tx) # "true") =>
              (mempool' = mempool /\ sent' = <<>>)]_vars

\* the handler thread `t` leaves its call of mine_block in this step
MineBlockReturns(t) == handlers[t].pc = "mine" /\ handlers'[t].pc # "mine"

\* C15: when a transaction passed to mine_block fails verify, mine_block
\* aborts before any mutation: no block is inserted and the tip key and the
\* tip cache are unchanged.
C15_FailedVerifyAbortsMining ==
    [][\A t \in Threads :
          (/\ MineBlockReturns(t)
           /\ \E i \in 1..Len(handlers[t].txs) :
                 Verify(blocks, tip_hash, handlers[t].txs[i]) # "true") =>
              /\ handlers'[t].pc = "panicked"
              /\ UNCHANGED <<blocks, tip_key, tip_hash>>]_vars

\* a handler's mine_block has panicked on a list holding a transaction with
\* a bad signature, after an earlier block was mined
C15_Witness ==
    \E t \in Threads :
        /\ handlers[t].pc = "panicked"
        /\ \E i \in 1..Len(handlers[t].txs) : handlers[t].txs[i] = BadSignatureTx
        /\ Cardinality(DOMAIN blocks) > 1

\* the outputs of `tx`, from 1-based position i on, that no input on the best
\* chain names
RECURSIVE UnspentFrom(_, _)
UnspentFrom(tx, i) ==
    IF i > Len(tx.vout) THEN <<>>
    ELSE (IF SpentOnChain(tx.id, i - 1) THEN <<>> ELSE <<tx.vout[i]>>)
         \o UnspentFrom(tx, i + 1)

\* the unspent outputs of the best chain, by transaction id
BestChainUnspent ==
    LET holders == {i \in 1..Len(BestChainTxs) : UnspentFrom(BestChainTxs[i], 1) # <<>>}
    IN  [txid \in {BestChainTxs[i].id : i \in holders} |->
            UnspentFrom(BestChainTxs[CHOOSE i \in holders : BestChainTxs[i].id = txid], 1)]

\* C17: after the Block package handler has stored a block that became the
\* new tip, chainstate equals the unspent outputs of the best chain.  Stated
\* for the tips whose chain reaches the genesis block.
C17_BlockHandlerKeepsChainstate ==
    (/\ last_add.called
     /\ tip_hash = last_add.block.hash
     /\ blocks[tip_hash] = last_add.block
     /\ WalkReachesNone(blocks, tip_hash)) =>
        chainstate = BestChainUnspent

\* the number of packages of type `type` among the send calls `calls`
CountSent(calls, type) == Cardinality({i \in 1..Len(calls) : calls[i].pkg.type = type})

\* C20: the handler of Version(addr_from, best_height) sends exactly one
\* GetBlocks and no Version when the local best height is lower, exactly one
\* Version carrying the local best height and no GetBlocks when it is higher,
\* and nothing when the heights are equal.
C20_VersionReplyByHeight ==
    [][\A peer_addr \in PeerSockets, pkg \in OfferedPackages :
          (pkg.type = "Version" /\ HandleVersion(peer_addr, pkg)) =>
              LET local == GetBestHeight(blocks, tip_hash)
              IN  /\ \A i \in 1..Len(sent') :
                        /\ sent'[i].to = pkg.addr_from
                        /\ sent'[i].pkg.type \in {"GetBlocks", "Version"}
                        /\ sent'[i].pkg.type = "Version" =>
                               sent'[i].pkg.best_height = local
                  /\ local < pkg.best_height =>
                        CountSent(sent', "GetBlocks") = 1 /\ CountSent(sent', "Version") = 0
                  /\ local > pkg.best_height =>
                        CountSent(sent', "Version") = 1 /\ CountSent(sent', "GetBlocks") = 0
                  /\ local = pkg.best_height => sent' = <<>>]_vars

\* the node, one block above genesis, has answered a peer at height 0 with
\* its own Version
C20_Witness ==
    /\ GetBestHeight(blocks, tip_hash) = 1
    /\ Len(sent) = 1
    /\ sent[1].to = OtherNode
    /\ sent[1].pkg.type = "Version"
    /\ sent[1].pkg.best_height = 1

\* no package is under way, and the node holds every block of the central
\* node's chain with the central node's tip and best height
Synced ==
    /\ network = <<>>
    /\ in_transit = <<>>
    /\ \A h \in DOMAIN PeerBlocks : h \in DOMAIN blocks /\ blocks[h] = PeerBlocks[h]
    /\ tip_hash = PeerBlock2.hash
    /\ tip_key = PeerBlock2.hash
    /\ GetBestHeight(blocks, tip_hash) = GetBestHeight(PeerBlocks, PeerBlock2.hash)

C25_BuiltOutputsPositive ==
    \A i \in 1..Len(BestChainTxs) :
        \A j \in 1..Len(BestChainTxs[i].vout) : ~(BestChainTxs[i].vout[j].value <= 0)

\* the sum of the values of the outputs `outs`
RECURSIVE SumValues(_)
SumValues(outs) == IF outs = <<>> THEN 0 ELSE outs[1].value + SumValues(Tail(outs))

\* the prior outputs the inputs of `tx` name on the best chain
PriorOutputs(tx) == [j \in 1..Len(tx.vin) |-> PrevOutput(blocks, tip_hash, tx.vin[j])]

\* C26: every transaction of a successful new_utxo_transaction has the
\* payment output, followed by a change output exactly when the inputs
\* carry more than the amount, and the sum of its output values equals the
\* sum of the values of the prior outputs its inputs name on the chain.
\* Stated for the chains whose outputs all carry positive values.
C26_OutputsMatchInputs ==
    PositiveValues =>
        \A i \in 1..Len(BestChainTxs) :
            LET tx == BestChainTxs[i]
            IN  ~IsCoinbase(tx) =>
                    /\ \A j \in 1..Len(tx.vin) : PrevResolves(blocks, tip_hash, tx.vin[j])
                    /\ Len(tx.vout) \in {1, 2}
                    /\ SumValues(tx.vout) = SumValues(PriorOutputs(tx))

\* C29: find_utxo, and chainstate after reindex, holds every output of the
\* chain that no non-coinbase input of the chain names, and no other.
\* Stated for the chains whose outputs all carry positive values.
C29_FindUtxoComplete ==
    PositiveValues => Reindexed(blocks, tip_hash) = BestChainUnspent

\* C30: after any sequence of reindex and update, the position of each
\* output in the list chainstate keeps under a txid is that output's vout
\* index in its transaction.  Stated for the chains whose outputs all carry
\* positive values.
C30_PositionIsVout ==
    PositiveValues =>
        \A txid \in DOMAIN chainstate :
            LET found == FindTransaction(blocks, tip_hash, txid)
            IN  /\ found # <<>>
                /\ \A p \in 1..Len(chainstate[txid]) :
                      /\ p <= Len(found[1].vout)
                      /\ chainstate[txid][p] = found[1].vout[p]

\* C28: ProofOfWork::run returns (n, h) where h is the hash of the header at
\* nonce n, h read as an integer is below the target, and no smaller nonce of
\* [0, MAX_NONCE) gives a hash below the target.
C28_RunReturnsFirstWork ==
    miner.pc = "returned" =>
        LET n == miner.result[1]
            digest == Sha256Digest(PrepareData(miner.block, n))
        IN  /\ miner.result[2] = HexEncode(digest)
            /\ FromBytesBe(digest) < Target
            /\ \A m \in 0..(n - 1) :
                  m < MAX_NONCE =>
                      ~(FromBytesBe(Sha256Digest(PrepareData(miner.block, m))) < Target)

\* how often the address `addr` occurs in the registry
Occurrences(registry, addr) == Cardinality({i \in 1..Len(registry) : registry[i] = addr})

\* C21: after a Version package with addr_from = a was handled, a is in the
\* peer registry exactly once, whatever the heights and whether or not a was
\* known before.
C21_VersionRegistersSender ==
    [][\A peer_addr \in PeerSockets, pkg \in OfferedPackages :
          (pkg.type = "Version" /\ HandleVersion(peer_addr, pkg)) =>
              Occurrences(nodes', pkg.addr_from) = 1]_vars

\* C22: when a send of a handler fails to connect to p, p is evicted and is
\* still absent from the registry when the handling of the package finishes.
C22_FailedSendEvicts ==
    [][\A peer_addr \in PeerSockets, pkg \in OfferedPackages :
          Serve(peer_addr, pkg) =>
              \A i \in 1..Len(sent') :
                  sent'[i].to \in unreachable => Occurrences(nodes', sent'[i].to) = 0]_vars

\* C23: the Tx handler starts mining exactly when, after its add, the pool
\* holds TRANSACTION_THRESHOLD transactions or more and the node has a mining
\* address; what it collects is the pool's transactions followed by one
\* coinbase to the mining address; and each start stores exactly one block
\* with exactly these transactions.
C23_TriggerMinesPoolSnapshot ==
    [][\A t \in Threads :
          /\ TxCheck(t) =>
                 (handlers'[t].pc = "collect" <=>
                      (/\ Cardinality(DOMAIN mempool) >= TRANSACTION_THRESHOLD
                       /\ config.mining_addr # NoMiningAddr))
          /\ TxCollect(t) =>
                 LET txs == handlers'[t].txs
                     n == Len(txs)
                 IN  /\ n = Cardinality(DOMAIN mempool) + 1
                     /\ {txs[i] : i \in 1..(n - 1)} = {mempool[k] : k \in DOMAIN mempool}
                     /\ IsCoinbase(txs[n])
                     /\ txs[n].vout = <<NewTXOutput(SUBSIDY, config.mining_addr)>>
          /\ TxMine(t) =>
                 \E h \in DOMAIN blocks' \ DOMAIN blocks :
                     /\ DOMAIN blocks' = DOMAIN blocks \cup {h}
                     /\ blocks'[h].transactions = handlers[t].txs]_vars

\* C27: every block the Tx handler's mine_block stores holds exactly one
\* transaction for which is_coinbase holds, and every such transaction on
\* the chain names no prior output and has outputs that total SUBSIDY.
C27_OneCoinbasePerBlock ==
    \A h \in DOMAIN blocks :
        LET txs == blocks[h].transactions
            coinbases == {i \in 1..Len(txs) : IsCoinbase(txs[i])}
        IN  /\ Cardinality(coinbases) = 1
            /\ \A i \in coinbases :
                  /\ FindTransaction(blocks, tip_hash, txs[i].vin[1].txid) = <<>>
                  /\ SumValues(txs[i].vout) = SUBSIDY

\* a handler thread of the miner has been ended by a panic
Stopped == \E t \in Threads : handlers[t].pc = "panicked"

\* the pool holds `tx`
InPool(tx) == \E k \in DOMAIN mempool : mempool[k] = tx

\* C24: after a handler thread of a miner was stopped by mine_block
\* rejecting a transaction, the node stays live: whenever the valid
\* transactions SpendA and SpendB (TRANSACTION_THRESHOLD of them) are
\* delivered afterwards on other connections, they are eventually mined
\* into the best chain.
C24_MinerStaysLive ==
    [](Stopped =>
         []((~InPool(SpendA) /\ ~InPool(SpendB)) =>
              []((InPool(SpendA) /\ InPool(SpendB)) =>
                   <>(OnBestChain(SpendA) /\ OnBestChain(SpendB)))))

\* the sequence without its entry at position i
WithoutEntry(hashes, i) == [j \in 1..(Len(hashes) - 1) |-> IF j < i THEN hashes[j] ELSE hashes[j + 1]]

CountInvTx(calls, addr, txid) ==
    Cardinality({i \in 1..Len(calls) :
                    /\ calls[i].to = addr
                    /\ calls[i].pkg.type = "Inv"
                    /\ calls[i].pkg.op_type = "Tx"
                    /\ calls[i].pkg.items = <<txid>>})

RECURSIVE SumAt(_, _)
SumAt(tree, positions) ==
    IF positions = {} THEN 0
    ELSE LET p == CHOOSE q \in positions : TRUE
         IN  tree[p[1]][p[2] + 1].value + SumAt(tree, positions \ {p})

\* the positions <<txid, idx>> of the outputs locked with the key
LockedPositions(tree, pub_key_hash) ==
    {p \in UNION {{<<k, idx>> : idx \in 0..(Len(tree[k]) - 1)} : k \in DOMAIN tree} :
        tree[p[1]][p[2] + 1].pub_key_hash = pub_key_hash}

\* the positions <<txid, idx>> a result of find_spendable_outputs names
SelectedPositions(tree, unspent_outputs) ==
    UNION {{<<k, unspent_outputs[HexEncode(k)][i]>> :
               i \in 1..Len(unspent_outputs[HexEncode(k)])} :
           k \in {x \in DOMAIN tree : HexEncode(x) \in DOMAIN unspent_outputs}}

\* C35: find_spendable_outputs(pub_key_hash, amount) selects only outputs
\* locked to pub_key_hash, returns the sum of the selected values, and stops
\* as soon as that sum reaches the amount: without one (the last) selected
\* output the sum is below the amount, and when the total locked to the key
\* is below the amount every such output is selected.
C35_SpendableStopsAtAmount ==
    \A w \in Wallets, amount \in Amounts :
        \A res \in FindSpendableOutputs(chainstate, HashPubKey(PublicKey(w)), amount) :
            LET locked == LockedPositions(chainstate, HashPubKey(PublicKey(w)))
                selected == SelectedPositions(chainstate, res[2])
            IN  /\ selected \subseteq locked
                /\ res[1] = SumAt(chainstate, selected)
                /\ selected # {} =>
                      \E last \in selected :
                          res[1] - chainstate[last[1]][last[2] + 1].value < amount
                /\ SumAt(chainstate, locked) < amount => selected = locked

\* C36: in every block this node mined, on the miner-trigger path of the Tx
\* handler and on the local send path with mine=1, the coinbase transaction
\* is the first transaction of the block.
C36_CoinbaseFirst ==
    \A h \in DOMAIN blocks :
        IsCoinbase(blocks[h].transactions[1])

\* the transactions of the blocks of `blks` other than the genesis block
MinedTxs(blks) ==
    UNION {{blks[h].transactions[i] : i \in 1..Len(blks[h].transactions)} :
           h \in DOMAIN blks \ {Genesis.hash}}

\* C37: no transaction is lost from the mempool: a transaction a handler
\* added stays in the pool until a block mined by this node contains it,
\* whatever other handler threads add between a miner's snapshot and its
\* removal loop, and when mine_block aborts.
C37_NoTxLost ==
    [][\A k \in DOMAIN mempool :
          (k \notin DOMAIN mempool' \/ mempool'[k] # mempool[k]) =>
              mempool[k] \in MinedTxs(blocks')]_vars

\* the ids of the transactions of a block
TxIds(block) == {block.transactions[i].id : i \in 1..Len(block.transactions)}

\* C38: no transaction id is contained in more than one block of those a
\* node mined, for every sequence and interleaving of Tx packages on a miner:
\* also when a Tx package is delivered again after its transaction was mined,
\* and when two handlers are in the mining branch at the same time.
C38_TxIdMinedOnce ==
    \A h1, h2 \in DOMAIN blocks \ {Genesis.hash} :
        h1 # h2 => TxIds(blocks[h1]) \cap TxIds(blocks[h2]) = {}

\* the sum of the values of all outputs a tree of unspent outputs holds
RECURSIVE TreeValue(_)
TreeValue(tree) ==
    IF DOMAIN tree = {} THEN 0
    ELSE LET k == CHOOSE x \in DOMAIN tree : TRUE
         IN  SumValues(tree[k]) + TreeValue(Del(tree, k))

\* C40: supply conservation: after any sequence of local sends with mining
\* and of reindex operations, the values of all outputs in chainstate sum to
\* SUBSIDY times the number of coinbase transactions on the chain.
C40_SupplyConserved ==
    TreeValue(chainstate) =
        SUBSIDY * Cardinality({i \in 1..Len(BestChainTxs) : IsCoinbase(BestChainTxs[i])})

\* the GetData{op=Block, id=hash} packages on their way to the central node
Requests(hash) ==
    {i \in 1..Len(network) :
        /\ network[i].to = CENTRAL_NODE
        /\ network[i].pkg.type = "GetData"
        /\ network[i].pkg.op_type = "Block"
        /\ network[i].pkg.id = hash}

InTransit(hash) == Cardinality({i \in 1..Len(in_transit) : in_transit[i] = hash})

\* C39: when several connection handlers process Block packages at the same
\* time, the read of the first element that follows the check that
\* blocks-in-transit is non-empty never fails, and no two handlers request a
\* hash for a single entry: the handlers about to request a hash are no more
\* than the entries holding it.
C39_FirstPresentWhenRead ==
    /\ \A t \in Threads : handlers[t].pc # "panicked"
    /\ \A t \in Threads :
          handlers[t].pc = "request" =>
              Cardinality({u \in Threads : /\ handlers[u].pc = "request"
                                           /\ handlers[u].block_hash = handlers[t].block_hash})
                  <= InTransit(handlers[t].block_hash)

\* a thread spawned by Server::run owns a connection to which a Block
\* package with the block was written
Accepted(block) ==
    \E t \in Threads :
        /\ handlers[t].pc = "spawned"
        /\ \E i \in 1..Len(handlers[t].stream) :
              /\ handlers[t].stream[i].pkg.type = "Block"
              /\ handlers[t].stream[i].pkg.block = block

\* C34: every package arriving on a connection accepted by Server.run is
\* eventually processed by serve (stated for the Block packages: serve's
\* handler calls add_block with the block), the packages of one connection in
\* the order of their arrival.
C34_AcceptedPackageServed ==
    \A block \in {PeerBlock1, PeerBlock2} :
        Accepted(block) ~> (last_add.called /\ last_add.block = block)

====
